---- MODULE Spec2Model ----
(***************************************************************************)
(* Appointments API (src/main.py, src/schemas.py): the free-slot           *)
(* computation of GET /api/services/{service_id}/slots and the             *)
(* double-booking check of POST /api/bookings, over the three collections  *)
(* service, availability and booking of the document store.                *)
(*                                                                         *)
(* Representation.                                                         *)
(*   - An "HH:MM" string (pattern ^\d{2}:\d{2}$) is the pair <<HH, MM>> of *)
(*     its two-digit fields; the order of two such strings (Python's and   *)
(*     the store's string comparison) is the lexicographic order of the    *)
(*     pairs.                                                              *)
(*   - A calendar day is its ordinal in 2024 (1 = 2024-01-01, a Monday);   *)
(*     a "YYYY-MM-DD" string is the triple <<YYYY, MM, DD>>.               *)
(*   - An Optional field is <<>> (None) or <<v>>.                          *)
(*   - Fields of a booking that no handler reads (customer_name, email,    *)
(*     notes) are stored verbatim and left out.                            *)
(*   - The database is configured (db is not None).                        *)
(*                                                                         *)
(* State.                                                                  *)
(*   service       the service collection: ObjectId -> document            *)
(*   availability  the availability collection, in retrieval order         *)
(*   booking       the booking collection, in insertion order              *)
(*   resp          the request just served and its response, until the     *)
(*                 response has left (NoResp between requests)             *)
(*   req           per worker thread, the create_booking request it is     *)
(*                 serving and the step it has reached                     *)
(*   checkedAt     history: for each stored booking, how many documents    *)
(*                 the collection held when its double-booking check ran   *)
(***************************************************************************)
EXTENDS Integers, Sequences, FiniteSets, TLC

VARIABLES service, availability, booking, resp, req, checkedAt

vars == <<service, availability, booking, resp, req, checkedAt>>

----------------------------------------------------------------------------
(* Bounds of the model *)

\* most documents the booking collection holds
MaxBookings == 2
\* longest horizon (query parameter days) a request asks for
MaxDays == 17
\* latest "today" (ordinal in 2024) a request is served on
MaxToday == 2

(* Program constants *)

\* out[:200]
Cap == 200
\* days: int = 14
DefaultDays == 14
\* duration_minutes: ge=15, le=240
MinDuration == 15
MaxDuration == 240

----------------------------------------------------------------------------
(* Optional values *)

None == <<>>
Some(v) == <<v>>

(* "HH:MM" strings *)

HHMM(h, m) == <<h, m>>

\* a < b on two "HH:MM" strings
StrLt(a, b) == a[1] < b[1] \/ (a[1] = b[1] /\ a[2] < b[2])
StrLe(a, b) == a = b \/ StrLt(a, b)

\* datetime.strptime(hhmm, "%H:%M") raises ValueError for an hour above 23 or a
\* minute above 59
parse_raises(hhmm) == hhmm[1] > 23 \/ hhmm[2] > 59

\* parse_time(hhmm).time(), in minutes since midnight
parse_time(hhmm) == hhmm[1] * 60 + hhmm[2]

\* datetime.strftime("%H:%M") of a time of day given in minutes since midnight
strftime(mins) == <<(mins \div 60) % 24, mins % 60>>

(* Calendar days of 2024 *)

MonthLen == <<31, 29, 31, 30, 31, 30, 31, 31, 30, 31, 30, 31>>

RECURSIVE MonthDay(_, _)
MonthDay(month, n) ==
    IF n <= MonthLen[month] THEN <<month, n>> ELSE MonthDay(month + 1, n - MonthLen[month])

\* date.isoformat()
isoformat(day) == <<2024, MonthDay(1, day)[1], MonthDay(1, day)[2]>>

\* date.weekday(): 0 = Monday .. 6 = Sunday
weekday_of(day) == (day - 1) % 7

----------------------------------------------------------------------------
(* Identifiers: the id strings requests carry, and bson's ObjectId *)

Sid1 == "65a1f0c2e4b0a1b2c3d4e5f1"
Sid1Upper == "65A1F0C2E4B0A1B2C3D4E5F1"
Sid2 == "65a1f0c2e4b0a1b2c3d4e5f2"
SidMissing == "65a1f0c2e4b0a1b2c3d4e5f9"
SidInvalid == "consultation-call"

Oid1 == "ObjectId(65a1f0c2e4b0a1b2c3d4e5f1)"
Oid2 == "ObjectId(65a1f0c2e4b0a1b2c3d4e5f2)"
OidMissing == "ObjectId(65a1f0c2e4b0a1b2c3d4e5f9)"
InvalidId == "InvalidId"

\* ObjectId(id_str): 24 hexadecimal digits of either case name an ObjectId,
\* anything else raises (HTTP 400)
to_object_id(id_str) ==
    CASE id_str \in {Sid1, Sid1Upper} -> Oid1
      [] id_str = Sid2 -> Oid2
      [] id_str = SidMissing -> OidMissing
      [] OTHER -> InvalidId

\* db["service"].find_one({"_id": oid}): the document, or None
FindService(oid) == IF oid \in DOMAIN service THEN Some(service[oid]) ELSE None

----------------------------------------------------------------------------
(* GET /api/services/{service_id}/slots *)

FreeSlot(date, start_time, end_time) ==
    [date |-> date, start_time |-> start_time, end_time |-> end_time]

\* list(db["availability"].find({"service_id": service_id})), in retrieval order
RulesOf(service_id) == SelectSeq(availability, LAMBDA r : r.service_id = service_id)

\* the dictionary built from the bookings that are not cancelled
BookedNotCancelled(service_id, day_str) ==
    LET mine == SelectSeq(booking, LAMBDA b : b.service_id = service_id /\ b.date = day_str
                                              /\ b.status # "cancelled")
    IN  [i \in 1..Len(mine) |-> <<mine[i].start_time, mine[i].end_time>>]

\* booked.get(day_str, []) of the dictionary built from
\* db["booking"].find({"service_id": service_id})
Booked(service_id, day_str) ==
    LET mine == SelectSeq(booking, LAMBDA b : b.service_id = service_id /\ b.date = day_str)
    IN  [i \in 1..Len(mine) |-> <<mine[i].start_time, mine[i].end_time>>]

\* the test with < and > : a slot adjacent to a booking counts as overlapping
OverlapsClosed(slot_start, slot_end, booked) ==
    \E i \in 1..Len(booked) :
        ~(StrLt(slot_end, booked[i][1]) \/ StrLt(booked[i][2], slot_start))

\* any(not (slot_end <= b_start or slot_start >= b_end) for ... in booked)
Overlaps(slot_start, slot_end, booked) ==
    \E i \in 1..Len(booked) :
        ~(StrLe(slot_end, booked[i][1]) \/ StrLe(booked[i][2], slot_start))

\* (r.get("weekday") == weekday) or (r.get("date") == day_str)
Matches(r, day) == r.weekday = Some(weekday_of(day)) \/ r.date = Some(isoformat(day))

\* a rule of a specific date overrides the weekday rules of that day
DayRulesOverride(rules, day) ==
    IF \E r \in 1..Len(rules) : rules[r].date = Some(isoformat(day))
    THEN SelectSeq(rules, LAMBDA r : r.date = Some(isoformat(day)))
    ELSE SelectSeq(rules, LAMBDA r : r.weekday = Some(weekday_of(day)))

\* day_rules: the rules matching the day, in retrieval order
DayRules(rules, day) == SelectSeq(rules, LAMBDA r : Matches(r, day))

\* the loop with "while cursor + dur < end_dt"
RECURSIVE SlotLoopStrict(_, _, _, _, _)
SlotLoopStrict(cursor, end_dt, dur, day_str, booked) ==
    IF cursor + dur < end_dt
    THEN LET slot_start == strftime(cursor)
             slot_end == strftime(cursor + dur)
             rest == SlotLoopStrict(cursor + dur, end_dt, dur, day_str, booked)
         IN  IF Overlaps(slot_start, slot_end, booked)
             THEN rest
             ELSE <<FreeSlot(day_str, slot_start, slot_end)>> \o rest
    ELSE <<>>

\* the while loop over one rule's window, cursor and end_dt in minutes of the day
RECURSIVE SlotLoop(_, _, _, _, _)
SlotLoop(cursor, end_dt, dur, day_str, booked) ==
    IF cursor + dur <= end_dt
    THEN LET slot_start == strftime(cursor)
             slot_end == strftime(cursor + dur)
             rest == SlotLoop(cursor + dur, end_dt, dur, day_str, booked)
         IN  IF Overlaps(slot_start, slot_end, booked)
             THEN rest
             ELSE <<FreeSlot(day_str, slot_start, slot_end)>> \o rest
    ELSE <<>>

\* the rules of a day taken by ascending start_time of their window: the
\* earliest not yet taken first
RECURSIVE RuleLoopByStart(_, _, _, _, _)
RuleLoopByStart(day_rules, r, dur, day_str, booked) ==
    IF Len(day_rules) = 0 THEN <<>>
    ELSE LET first == CHOOSE i \in 1..Len(day_rules) :
                         \A j \in 1..Len(day_rules) :
                             \/ StrLt(day_rules[i].start_time, day_rules[j].start_time)
                             \/ (day_rules[i].start_time = day_rules[j].start_time /\ i <= j)
             others == [j \in 1..(Len(day_rules) - 1) |->
                          IF j < first THEN day_rules[j] ELSE day_rules[j + 1]]
         IN  SlotLoop(parse_time(day_rules[first].start_time),
                      parse_time(day_rules[first].end_time), dur, day_str, booked)
             \o RuleLoopByStart(others, r, dur, day_str, booked)

\* the body of "for r in day_rules", from the r-th matching rule on
RECURSIVE RuleLoop(_, _, _, _, _)
RuleLoop(day_rules, r, dur, day_str, booked) ==
    IF r > Len(day_rules) THEN <<>>
    ELSE SlotLoop(parse_time(day_rules[r].start_time), parse_time(day_rules[r].end_time),
                  dur, day_str, booked)
         \o RuleLoop(day_rules, r + 1, dur, day_str, booked)

\* the body of "for i in range(days)", from day offset i on
RECURSIVE DayLoop(_, _, _, _, _, _)
DayLoop(service_id, rules, dur, today, i, days) ==
    IF i >= days THEN <<>>
    ELSE RuleLoop(DayRules(rules, today + i), 1, dur, isoformat(today + i),
                  Booked(service_id, isoformat(today + i)))
         \o DayLoop(service_id, rules, dur, today, i + 1, days)

\* whether parse_time raises on a rule the loops reach
ParseFails(rules, today, days) ==
    \E i \in 0..(days - 1) :
        LET day_rules == DayRules(rules, today + i)
        IN  \E r \in 1..Len(day_rules) :
                parse_raises(day_rules[r].start_time) \/ parse_raises(day_rules[r].end_time)

\* no cap on the result
TruncateNothing(out) == out

\* out[:200]
Truncate(out) == SubSeq(out, 1, IF Len(out) < Cap THEN Len(out) ELSE Cap)

NoPayload == [service_id |-> "", service_name |-> None, date |-> None,
              start_time |-> None, end_time |-> None, status |-> ""]

NoResp == [op |-> "none", status |-> 0, service_id |-> "", days |-> 0, today |-> 0,
           payload |-> NoPayload, out |-> <<>>]

SlotsResp(service_id, days, today, status, out) ==
    [op |-> "get_free_slots", status |-> status, service_id |-> service_id, days |-> days,
     today |-> today, payload |-> NoPayload, out |-> out]

\* the handler get_free_slots, served on the UTC day today
get_free_slots(service_id, days, today) ==
    LET found == FindService(to_object_id(service_id))
        rules == RulesOf(service_id)
    IN  IF to_object_id(service_id) = InvalidId
        THEN SlotsResp(service_id, days, today, 400, <<>>)
        ELSE IF found = None
        THEN SlotsResp(service_id, days, today, 404, <<>>)
        ELSE IF ParseFails(rules, today, days)
        THEN SlotsResp(service_id, days, today, 500, <<>>)
        ELSE SlotsResp(service_id, days, today, 200,
                       Truncate(DayLoop(service_id, rules, found[1].duration_minutes,
                                        today, 0, days)))

GetFreeSlots(service_id, days, today) ==
    /\ resp = NoResp
    /\ resp' = get_free_slots(service_id, days, today)
    /\ UNCHANGED <<service, availability, booking, req, checkedAt>>

----------------------------------------------------------------------------
(* POST /api/bookings *)

\* the check with $lte and $gte: an adjacent booking conflicts too
ConflictClosed(payload) ==
    \E i \in 1..Len(booking) :
        /\ booking[i].service_id = payload.service_id
        /\ booking[i].date = payload.date
        /\ StrLe(booking[i].start_time, payload.end_time)
        /\ StrLe(payload.start_time, booking[i].end_time)

\* the check on an equal start_time only
ConflictSameStart(payload) ==
    \E i \in 1..Len(booking) :
        /\ booking[i].service_id = payload.service_id
        /\ booking[i].date = payload.date
        /\ booking[i].start_time = payload.start_time

\* db["booking"].find_one({"service_id": .., "date": ..,
\*     "$or": [{"start_time": {"$lt": end_time}, "end_time": {"$gt": start_time}}]})
\* is not None
Conflict(payload) ==
    \E i \in 1..Len(booking) :
        /\ booking[i].service_id = payload.service_id
        /\ booking[i].date = payload.date
        /\ StrLt(booking[i].start_time, payload.end_time)
        /\ StrLt(payload.start_time, booking[i].end_time)

\* the document without line 165: the body's own service_name is stored
DocumentAsSent(payload, svc) == payload

\* data = payload.model_dump(); data["service_name"] = service.get("name")
Document(payload, svc) == [payload EXCEPT !.service_name = Some(svc.name)]

BookingResp(payload, status) ==
    [op |-> "create_booking", status |-> status, service_id |-> payload.service_id,
     days |-> 0, today |-> 0, payload |-> payload, out |-> <<>>]

\* the handler create_booking run without interleaving
CreateBooking(payload) ==
    /\ resp = NoResp
    /\ LET oid == to_object_id(payload.service_id)
           found == FindService(oid)
       IN  IF oid = InvalidId
           THEN /\ resp' = BookingResp(payload, 400)
                /\ UNCHANGED <<booking, checkedAt>>
           ELSE IF found = None
           THEN /\ resp' = BookingResp(payload, 404)
                /\ UNCHANGED <<booking, checkedAt>>
           ELSE IF Conflict(payload)
           THEN /\ resp' = BookingResp(payload, 409)
                /\ UNCHANGED <<booking, checkedAt>>
           ELSE /\ Len(booking) < MaxBookings
                /\ booking' = Append(booking, Document(payload, found[1]))
                /\ checkedAt' = Append(checkedAt, Len(booking))
                /\ resp' = BookingResp(payload, 200)
    /\ UNCHANGED <<service, availability, req>>

\* the response leaves the server; the next request is served after it
Return ==
    /\ resp # NoResp
    /\ resp' = NoResp
    /\ UNCHANGED <<service, availability, booking, req, checkedAt>>

----------------------------------------------------------------------------
(* The store after startup: seed_data's service and its Monday-to-Friday  *)
(* rules, and a second service whose rules were written to the store      *)
(* directly (no handler writes services or rules).                        *)

SeedService == [name |-> "Consultation Call", duration_minutes |-> 30]
SecondService == [name |-> "Deep Dive", duration_minutes |-> 45]

Rule(service_id, weekday, date, start_time, end_time) ==
    [service_id |-> service_id, weekday |-> weekday, date |-> date,
     start_time |-> start_time, end_time |-> end_time]

\* for weekday in range(0,5): 09:00-17:00, service_id = str(service["_id"])
SeedRules == [w \in 1..5 |-> Rule(Sid1, Some(w - 1), None, HHMM(9, 0), HHMM(17, 0))]

Tue2 == <<2024, 1, 2>>
Wed3 == <<2024, 1, 3>>
Mon15 == <<2024, 1, 15>>

SecondRules ==
    << Rule(Sid2, Some(1), None, HHMM(10, 0), HHMM(11, 40)),
       Rule(Sid2, None, Some(Tue2), HHMM(9, 0), HHMM(10, 0)),
       Rule(Sid2, None, Some(Tue2), HHMM(10, 0), HHMM(11, 40)),
       Rule(Sid2, Some(2), Some(Wed3), HHMM(13, 0), HHMM(13, 50)),
       Rule(Sid2, None, Some(Mon15), HHMM(24, 0), HHMM(25, 0)) >>

InitStore ==
    /\ service = (Oid1 :> SeedService) @@ (Oid2 :> SecondService)
    /\ availability = SeedRules \o SecondRules
    /\ booking = <<>>
    /\ checkedAt = <<>>

----------------------------------------------------------------------------------------------------------------------------------------------
(* Requests *)

ServiceIds == {Sid1, Sid1Upper, Sid2, SidMissing, SidInvalid}
Dates == {Tue2, Wed3}

Early == <<HHMM(10, 0), HHMM(10, 30)>>
Middle == <<HHMM(10, 15), HHMM(10, 45)>>
Late == <<HHMM(10, 30), HHMM(11, 0)>>
WorkDay == <<HHMM(9, 0), HHMM(17, 0)>>
Inverted == <<HHMM(10, 45), HHMM(10, 15)>>

Intervals == {Early, Middle, Late}
Statuses == {"pending", "confirmed", "cancelled"}
Names == {None, Some("Free Call")}

Payload(service_id, service_name, date, iv, status) ==
    [service_id |-> service_id, service_name |-> service_name, date |-> date,
     start_time |-> iv[1], end_time |-> iv[2], status |-> status]

\* a body with the optional fields at their defaults: service_name None, status
\* "confirmed"
Plain(service_id, date, iv) == Payload(service_id, None, date, iv, "confirmed")

\* the seed service on one date over every interval, the whole working day and
\* an interval whose end precedes its start; the first interval with every
\* status and service_name; and the first interval on another date and under
\* every other id
Payloads ==
    { Plain(Sid1, Tue2, iv) : iv \in Intervals \cup {WorkDay, Inverted} }
    \cup { Payload(Sid1, n, Tue2, Early, st) : n \in Names, st \in Statuses }
    \cup { Plain(s, d, Early) : s \in ServiceIds, d \in Dates }

DaysAsked == {1, 2, DefaultDays, MaxDays}
Todays == 1..MaxToday

Idle == [pc |-> "idle", payload |-> NoPayload, seen |-> 0, status |-> 0]
Threads == {1, 2}

Init ==
    /\ InitStore
    /\ resp = NoResp
    /\ req = [t \in Threads |-> Idle]

Next ==
    \/ \E p \in Payloads : CreateBooking(p)
    \/ \E s \in ServiceIds, d \in DaysAsked, t \in Todays : GetFreeSlots(s, d, t)
    \/ Return

Spec == Init /\ [][Next]_vars

----------------------------------------------------------------------------
(* POST /api/bookings served by concurrent workers: the handler is a plain *)
(* def, which FastAPI runs in a thread pool, so the store round trips of   *)
(* two requests interleave.                                                *)

\* the request arrives and db["service"].find_one resolves its service_id
Receive(t, payload) ==
    /\ req[t].pc = "idle"
    /\ LET oid == to_object_id(payload.service_id)
       IN  req' = [req EXCEPT ![t] =
                IF oid = InvalidId THEN [Idle EXCEPT !.status = 400, !.payload = payload]
                ELSE IF FindService(oid) = None
                THEN [Idle EXCEPT !.status = 404, !.payload = payload]
                ELSE [pc |-> "check", payload |-> payload, seen |-> 0, status |-> 0]]
    /\ UNCHANGED <<service, availability, booking, resp, checkedAt>>

\* db["booking"].find_one(...) of the double-booking check
CheckConflict(t) ==
    /\ req[t].pc = "check"
    /\ req' = [req EXCEPT ![t] =
            IF Conflict(req[t].payload)
            THEN [Idle EXCEPT !.status = 409, !.payload = req[t].payload]
            ELSE [req[t] EXCEPT !.pc = "insert", !.seen = Len(booking)]]
    /\ UNCHANGED <<service, availability, booking, resp, checkedAt>>

\* create_document("booking", data) and the response
Insert(t) ==
    /\ req[t].pc = "insert"
    /\ Len(booking) < MaxBookings
    /\ booking' = Append(booking,
            Document(req[t].payload, service[to_object_id(req[t].payload.service_id)]))
    /\ checkedAt' = Append(checkedAt, req[t].seen)
    /\ req' = [req EXCEPT ![t] = [Idle EXCEPT !.status = 200, !.payload = req[t].payload]]
    /\ UNCHANGED <<service, availability, resp>>

RacePayloads ==
    { Plain(s, d, iv) : s \in {Sid1, SidMissing, SidInvalid}, d \in Dates, iv \in Intervals }

NextRace ==
    \/ \E t \in Threads, p \in RacePayloads : Receive(t, p)
    \/ \E t \in Threads : CheckConflict(t)
    \/ \E t \in Threads : Insert(t)

SpecRace == Init /\ [][NextRace]_vars

----------------------------------------------------------------------------
(* One service with one rule, the duration and the window drawn from the   *)
(* values the schemas admit, and no booking.                               *)

Durations == MinDuration..MaxDuration
WindowStarts == {HHMM(8, 0), HHMM(9, 0), HHMM(9, 10), HHMM(16, 50)}
WindowEnds == {HHMM(8, 14), HHMM(9, 0), HHMM(9, 40), HHMM(10, 0), HHMM(17, 0), HHMM(17, 5)}

InitWindow ==
    /\ \E d \in Durations :
           service = (Oid1 :> [name |-> "Consultation Call", duration_minutes |-> d])
    /\ \E s \in WindowStarts, e \in WindowEnds :
           availability = << Rule(Sid1, Some(1), None, s, e) >>
    /\ booking = <<>>
    /\ checkedAt = <<>>
    /\ resp = NoResp
    /\ req = [t \in Threads |-> Idle]

NextWindow ==
    \/ \E t \in Todays : GetFreeSlots(Sid1, 1, t)
    \/ Return

SpecWindow == InitWindow /\ [][NextWindow]_vars

----------------------------------------------------------------------------
(* Properties of POST /api/bookings *)

\* two stored or requested intervals share a point of time: some t with
\* a.start <= t < a.end and b.start <= t < b.end
SharePoint(a_start, a_end, b_start, b_end) ==
    \E t \in {a_start, b_start} :
        /\ StrLe(a_start, t) /\ StrLt(t, a_end)
        /\ StrLe(b_start, t) /\ StrLt(t, b_end)

\* the claim's test of a stored booking against a request
BlockedBy(b, p) ==
    /\ b.service_id = p.service_id
    /\ b.date = p.date
    /\ StrLt(b.start_time, p.end_time)
    /\ StrLt(p.start_time, b.end_time)

IntervalOf(b) == <<b.start_time, b.end_time>>

Resolves(service_id) ==
    /\ to_object_id(service_id) # InvalidId
    /\ to_object_id(service_id) \in DOMAIN service

\* a step that serves one create_booking request
ServesBooking == resp = NoResp /\ resp'.op = "create_booking"

\* C1: create_booking for an existing service answers 409 exactly when some
\* stored booking of the same service_id and date has start < requested end and
\* end > requested start, whatever its status, and otherwise stores the booking;
\* a request adjacent to the only stored booking of that service and date
\* succeeds and one that partially overlaps it fails.
C1_ConflictIffOverlap ==
    [][ (ServesBooking /\ Resolves(resp'.payload.service_id)) =>
          LET p == resp'.payload
              same == {j \in 1..Len(booking) :
                          booking[j].service_id = p.service_id /\ booking[j].date = p.date}
          IN  /\ resp'.status \in {200, 409}
              /\ resp'.status = 409 <=> \E j \in 1..Len(booking) : BlockedBy(booking[j], p)
              /\ (same # {} /\ \A j \in same : IntervalOf(booking[j]) = Early) =>
                    /\ IntervalOf(p) = Late => resp'.status = 200
                    /\ IntervalOf(p) = Middle => resp'.status = 409
      ]_vars

\* a cancelled 10:00-10:30 booking and the adjacent 10:30-11:00 one are stored,
\* and the request for 10:15-10:45 has just been refused
C1_Witness ==
    /\ resp.op = "create_booking" /\ resp.status = 409
    /\ IntervalOf(resp.payload) = Middle
    /\ Len(booking) = 2
    /\ IntervalOf(booking[1]) = Early /\ booking[1].status = "cancelled"
    /\ IntervalOf(booking[2]) = Late
    /\ \A j \in 1..2 : booking[j].service_id = resp.payload.service_id
                        /\ booking[j].date = resp.payload.date

\* C8: with the requests served one at a time, no two stored bookings of the
\* same service_id and date, each with start_time < end_time, share a point of
\* time.
C8_NoDoubleBooking ==
    \A i, j \in 1..Len(booking) :
        ( /\ i < j
          /\ booking[i].service_id = booking[j].service_id
          /\ booking[i].date = booking[j].date
          /\ StrLt(booking[i].start_time, booking[i].end_time)
          /\ StrLt(booking[j].start_time, booking[j].end_time) )
        => ~SharePoint(booking[i].start_time, booking[i].end_time,
                       booking[j].start_time, booking[j].end_time)

\* two bookings of one service and date are stored, the second accepted after
\* the first
C8_Witness ==
    /\ Len(booking) = 2
    /\ booking[1].service_id = booking[2].service_id
    /\ booking[1].date = booking[2].date
    /\ StrLt(booking[1].start_time, booking[1].end_time)
    /\ StrLt(booking[2].start_time, booking[2].end_time)
    /\ resp.op = "create_booking" /\ resp.status = 200

\* C10: a create_booking that fails (400, 404, 409) changes no collection; one
\* that succeeds leaves service and availability alone and appends exactly one
\* booking, the request's body with service_name replaced by the name of the
\* service its service_id resolves to; 404 is the answer exactly when the id is
\* well formed and resolves to no service.
C10_Frame ==
    [][ ServesBooking =>
          LET p == resp'.payload
          IN  /\ service' = service
              /\ availability' = availability
              /\ resp'.status \in {200, 400, 404, 409}
              /\ resp'.status = 404 <=>
                    (to_object_id(p.service_id) # InvalidId /\ ~Resolves(p.service_id))
              /\ resp'.status # 200 => booking' = booking
              /\ resp'.status = 200 =>
                    /\ Len(booking') = Len(booking) + 1
                    /\ SubSeq(booking', 1, Len(booking)) = booking
                    /\ booking'[Len(booking')] =
                          [p EXCEPT !.service_name =
                              Some(service[to_object_id(p.service_id)].name)]
      ]_vars

\* a second booking has just been stored under the service's name although the
\* body named it otherwise
C10_Witness ==
    /\ resp.op = "create_booking" /\ resp.status = 200
    /\ resp.payload.service_name = Some("Free Call")
    /\ Len(booking) = 2
    /\ booking[2].service_name = Some("Consultation Call")
    /\ booking[2].status = resp.payload.status

----------------------------------------------------------------------------
(* Properties of concurrent create_booking requests *)

DoubleBooked(i, j) ==
    /\ i < j
    /\ booking[i].service_id = booking[j].service_id
    /\ booking[i].date = booking[j].date
    /\ StrLt(booking[i].start_time, booking[i].end_time)
    /\ StrLt(booking[j].start_time, booking[j].end_time)
    /\ SharePoint(booking[i].start_time, booking[i].end_time,
                  booking[j].start_time, booking[j].end_time)

\* C4: the check and the insert of create_booking are separate steps: two
\* overlapping bookings of one service and date are stored only when the later
\* one's check ran before the earlier one was inserted (it saw fewer than i
\* documents), and such a state is reachable (C4_Witness).
C4_OverlapOnlyByRace ==
    \A i, j \in 1..Len(booking) : DoubleBooked(i, j) => checkedAt[j] < i

\* both requests passed the check on the empty collection and both inserted
C4_Witness ==
    /\ Len(booking) = 2
    /\ DoubleBooked(1, 2)
    /\ checkedAt = <<0, 0>>
    /\ \A t \in Threads : req[t].pc = "idle" /\ req[t].status = 200

----------------------------------------------------------------------------
(* Properties of GET /api/services/{service_id}/slots *)

\* a successful answer of get_free_slots is in resp
IsSlots == resp.op = "get_free_slots" /\ resp.status = 200

\* the days [today, today + days) of the answered request
Horizon == {resp.today + i : i \in 0..(resp.days - 1)}

\* overlap(A, B) = NOT (A.end <= B.start OR A.start >= B.end)
Overlap(a_start, a_end, b_start, b_end) == ~(StrLe(a_end, b_start) \/ StrLe(b_end, a_start))

\* no stored booking of the service_id on the date overlaps [start, end),
\* whatever its status
Free(service_id, date, start, end) ==
    \A j \in 1..Len(booking) :
        (booking[j].service_id = service_id /\ booking[j].date = date) =>
            ~Overlap(start, end, booking[j].start_time, booking[j].end_time)

\* the rules (places in the availability collection) of the service_id that
\* match the day: by their weekday or by their date
MatchingRules(service_id, day) ==
    {a \in 1..Len(availability) :
        /\ availability[a].service_id = service_id
        /\ \/ availability[a].weekday = Some(weekday_of(day))
           \/ availability[a].date = Some(isoformat(day))}

Minutes(hhmm) == 60 * hhmm[1] + hhmm[2]

\* floor((end - start) / d) slots in the window of rule a, none when end <= start
NSlots(a, d) ==
    IF Minutes(availability[a].end_time) > Minutes(availability[a].start_time)
    THEN (Minutes(availability[a].end_time) - Minutes(availability[a].start_time)) \div d
    ELSE 0

\* the k-th slot (k = 0, 1, ..) of rule a on the day: [start + k*d, start + (k+1)*d)
KthSlot(a, d, day, k) ==
    LET from == Minutes(availability[a].start_time) + k * d
    IN  FreeSlot(isoformat(day), <<from \div 60, from % 60>>,
                 <<(from + d) \div 60, (from + d) % 60>>)

DurationOf(service_id) == service[to_object_id(service_id)].duration_minutes

\* the candidate slots of a day as <<rule, k>>, and those no booking excludes
Candidates(service_id, day) ==
    UNION { {<<a, k>> : k \in 0..(NSlots(a, DurationOf(service_id)) - 1)} :
            a \in MatchingRules(service_id, day) }

SlotOf(service_id, day, key) == KthSlot(key[1], DurationOf(service_id), day, key[2])

Survivors(service_id, day) ==
    {key \in Candidates(service_id, day) :
        LET slot == SlotOf(service_id, day, key)
        IN  Free(service_id, slot.date, slot.start_time, slot.end_time)}

\* the entries of the answer on one day, in the answer's order
OutOn(day) == SelectSeq(resp.out, LAMBDA s : s.date = isoformat(day))

Occurrences(seq, x) == Cardinality({i \in 1..Len(seq) : seq[i] = x})

\* C2: no slot of the answer overlaps a stored booking of the requested
\* service_id on the slot's date, pending, confirmed or cancelled; and a
\* candidate slot missing from an answer the cap did not cut overlaps such a
\* booking, so bookings of another service_id or date exclude nothing.
C2_SlotsAvoidBookings ==
    IsSlots =>
        /\ \A i \in 1..Len(resp.out) : \A j \in 1..Len(booking) :
               (booking[j].service_id = resp.service_id /\ booking[j].date = resp.out[i].date) =>
                   ~Overlap(resp.out[i].start_time, resp.out[i].end_time,
                            booking[j].start_time, booking[j].end_time)
        /\ Len(resp.out) < Cap =>
               \A day \in Horizon : \A key \in Candidates(resp.service_id, day) :
                   LET slot == SlotOf(resp.service_id, day, key)
                       on == OutOn(day)
                   IN  (\A i \in 1..Len(on) : on[i] # slot) =>
                           \E j \in 1..Len(booking) :
                               /\ booking[j].service_id = resp.service_id
                               /\ booking[j].date = slot.date
                               /\ Overlap(slot.start_time, slot.end_time,
                                          booking[j].start_time, booking[j].end_time)

\* the answer for the seed service on 2024-01-02 lacks 10:00-10:30, which a
\* cancelled booking holds, and offers 10:30-11:00 although another service_id
\* has a booking at 10:00-10:30 that day
C2_Witness ==
    /\ IsSlots /\ resp.service_id = Sid1 /\ 2 \in Horizon
    /\ \E j \in 1..Len(booking) :
           /\ booking[j].service_id = Sid1 /\ booking[j].date = Tue2
           /\ IntervalOf(booking[j]) = Early /\ booking[j].status = "cancelled"
    /\ \E j \in 1..Len(booking) :
           /\ booking[j].service_id # Sid1 /\ booking[j].date = Tue2
    /\ \E i \in 1..Len(resp.out) : resp.out[i] = FreeSlot(Tue2, Late[1], Late[2])
    /\ \A i \in 1..Len(resp.out) : resp.out[i] # FreeSlot(Tue2, Early[1], Early[2])

\* C7: a rule of the service matches a day when its weekday is the day's or
\* its date is the day's; the answer (when the cap did not cut it) holds each
\* surviving slot of a day once per matching rule whose window yields it, so a
\* weekday rule and a date rule with the same window give the slot twice, and
\* it holds nothing else.
C7_UnionOfMatchingRules ==
    (IsSlots /\ Len(resp.out) < Cap) =>
        /\ \A i \in 1..Len(resp.out) : \E day \in Horizon : resp.out[i].date = isoformat(day)
        /\ \A day \in Horizon :
               LET on == OutOn(day)
                   keys == Survivors(resp.service_id, day)
                   slots == {on[i] : i \in 1..Len(on)}
                            \cup {SlotOf(resp.service_id, day, key) : key \in keys}
               IN  \A slot \in slots :
                       Occurrences(on, slot) =
                           Cardinality({key \in keys : SlotOf(resp.service_id, day, key) = slot})

\* on Tuesday 2024-01-02 the weekday rule and the date rule of the same window
\* both give 10:00-10:45, and the other date rule gives 09:00-09:45
C7_Witness ==
    /\ IsSlots /\ resp.service_id = Sid2 /\ 2 \in Horizon
    /\ Occurrences(resp.out, FreeSlot(Tue2, HHMM(10, 0), HHMM(10, 45))) = 2
    /\ Occurrences(resp.out, FreeSlot(Tue2, HHMM(9, 0), HHMM(9, 45))) = 1

DateLe(a, b) ==
    \/ a[1] < b[1]
    \/ a[1] = b[1] /\ a[2] < b[2]
    \/ a[1] = b[1] /\ a[2] = b[2] /\ a[3] <= b[3]

\* the surviving slots of rule a on the day, by ascending start
SurvivorsOfRule(service_id, day, a) ==
    SelectSeq([k \in 1..NSlots(a, DurationOf(service_id)) |->
                  KthSlot(a, DurationOf(service_id), day, k - 1)],
              LAMBDA s : Free(service_id, s.date, s.start_time, s.end_time))

\* the surviving slots of the day: rule after rule in the order the collection
\* returns them, from rule a on
RECURSIVE ListingFrom(_, _, _)
ListingFrom(service_id, day, a) ==
    IF a > Len(availability) THEN <<>>
    ELSE (IF a \in MatchingRules(service_id, day)
          THEN SurvivorsOfRule(service_id, day, a) ELSE <<>>)
         \o ListingFrom(service_id, day, a + 1)

IsPrefix(s, t) == Len(s) <= Len(t) /\ s = SubSeq(t, 1, Len(s))

\* C6: the answer is ordered by day ascending; within a day it lists the
\* surviving slots rule after rule in retrieval order and by ascending start
\* within one rule (all of them unless the cap cut the answer, a leading part
\* otherwise), so a later-retrieved rule with an earlier window comes after.
C6_GenerationOrder ==
    IsSlots =>
        /\ \A i \in 1..(Len(resp.out) - 1) : DateLe(resp.out[i].date, resp.out[i + 1].date)
        /\ \A day \in Horizon :
               /\ IsPrefix(OutOn(day), ListingFrom(resp.service_id, day, 1))
               /\ Len(resp.out) < Cap => OutOn(day) = ListingFrom(resp.service_id, day, 1)

\* the answer lists 10:45-11:30 of the first rule before 09:00-09:45 of the
\* rule retrieved after it, on the same day
C6_Witness ==
    /\ IsSlots /\ resp.service_id = Sid2
    /\ \E i \in 1..(Len(resp.out) - 1) :
           /\ resp.out[i] = FreeSlot(Tue2, HHMM(10, 45), HHMM(11, 30))
           /\ resp.out[i + 1] = FreeSlot(Tue2, HHMM(9, 0), HHMM(9, 45))

RECURSIVE SurvivorsFrom(_)
SurvivorsFrom(i) ==
    IF i >= resp.days THEN 0
    ELSE Cardinality(Survivors(resp.service_id, resp.today + i)) + SurvivorsFrom(i + 1)

RECURSIVE CandidatesFrom(_)
CandidatesFrom(i) ==
    IF i >= resp.days THEN 0
    ELSE Cardinality(Candidates(resp.service_id, resp.today + i)) + CandidatesFrom(i + 1)

\* the slots of the whole horizon that survive booking exclusion, and the
\* candidate slots before booking exclusion
TotalSurvivors == SurvivorsFrom(0)
TotalCandidates == CandidatesFrom(0)

\* C5 as stated: the answer never has more than 200 entries, and has exactly
\* 200 whenever the horizon produces more than 200 candidate slots.
C5_CapOnCandidates ==
    IsSlots =>
        /\ Len(resp.out) <= Cap
        /\ TotalCandidates > Cap => Len(resp.out) = Cap

\* C5, amended: the answer never has more than 200 entries; it has exactly 200
\* whenever more than 200 slots of the horizon survive booking exclusion, and
\* all the surviving slots otherwise; the cut is at the end of the whole
\* horizon, not per day: a day whose surviving slots are not all in the answer
\* is followed by no day with an entry in it.
C5_CapOnSurvivors ==
    IsSlots =>
        LET total == TotalSurvivors
        IN  /\ Len(resp.out) <= Cap
            /\ total > Cap => Len(resp.out) = Cap
            /\ total <= Cap => Len(resp.out) = total
            /\ \A day \in Horizon :
                   Len(OutOn(day)) < Cardinality(Survivors(resp.service_id, day)) =>
                       \A i \in 1..Len(resp.out) : \A later \in Horizon :
                           resp.out[i].date = isoformat(later) => later <= day

\* a booking excludes a slot, more than 200 slots still survive in the horizon
\* and the answer holds 200: all 16 of the first day, and of the last day's
\* only a part
C5_Witness ==
    /\ IsSlots /\ resp.service_id = Sid1 /\ resp.today = 1
    /\ TotalSurvivors > Cap
    /\ TotalSurvivors < TotalCandidates
    /\ Len(resp.out) = Cap
    /\ Len(OutOn(1)) = 16
    /\ Len(OutOn(resp.today + resp.days - 1))
         < Cardinality(Survivors(Sid1, resp.today + resp.days - 1))

\* C9: for every candidate slot of the answered request (its service_id, a day
\* of its horizon), the slot passes the slot filter of get_free_slots, and is
\* in the answer when the cap did not cut it, exactly when create_booking for
\* that service_id, date, start_time and end_time finds no conflict in the same
\* store; and no answer holds a slot that is stored as a booking of that
\* service_id, date, start_time and end_time.
C9_FilterAgreesWithCheck ==
    IsSlots =>
        /\ \A day \in Horizon :
               LET booked == Booked(resp.service_id, isoformat(day))
                   on == OutOn(day)
               IN  \A key \in Candidates(resp.service_id, day) :
                       LET slot == SlotOf(resp.service_id, day, key)
                           refused == Conflict(Plain(resp.service_id, slot.date,
                                                     <<slot.start_time, slot.end_time>>))
                       IN  /\ ~Overlaps(slot.start_time, slot.end_time, booked) <=> ~refused
                           /\ Len(resp.out) < Cap =>
                                  ((\E i \in 1..Len(on) : on[i] = slot) <=> ~refused)
        /\ \A i \in 1..Len(resp.out) : \A j \in 1..Len(booking) :
               ~ ( /\ booking[j].service_id = resp.service_id
                   /\ booking[j].date = resp.out[i].date
                   /\ booking[j].start_time = resp.out[i].start_time
                   /\ booking[j].end_time = resp.out[i].end_time )

\* the slot 10:00-10:30 of 2024-01-02 was booked through create_booking, and
\* the answer that follows offers 09:30-10:00 and 10:30-11:00 but not that slot
C9_Witness ==
    /\ IsSlots /\ resp.service_id = Sid1 /\ 2 \in Horizon
    /\ <<1, 2>> \in Candidates(Sid1, 2) \/ <<2, 2>> \in Candidates(Sid1, 2)
    /\ \E j \in 1..Len(booking) : booking[j] = Document(Plain(Sid1, Tue2, Early), SeedService)
    /\ Occurrences(resp.out, FreeSlot(Tue2, HHMM(9, 30), HHMM(10, 0))) = 1
    /\ Occurrences(resp.out, FreeSlot(Tue2, HHMM(10, 30), HHMM(11, 0))) = 1
    /\ Occurrences(resp.out, FreeSlot(Tue2, HHMM(10, 0), HHMM(10, 30))) = 0

----------------------------------------------------------------------------
(* Properties of the slots of one window *)

\* C3: for the one rule, matching the day, with end_time > start_time and the
\* service's duration d, the answer without bookings is exactly the
\* floor((end - start) / d) slots [start + k*d, start + (k+1)*d): each d minutes
\* long, each starting where the one before ends, the last ending no later than
\* end_time.
C3_WindowSlots ==
    ( /\ IsSlots
      /\ MatchingRules(resp.service_id, resp.today) = {1}
      /\ StrLt(availability[1].start_time, availability[1].end_time) ) =>
        LET d == service[Oid1].duration_minutes
            from == Minutes(availability[1].start_time)
            to == Minutes(availability[1].end_time)
            n == (to - from) \div d
            out == resp.out
        IN  /\ Len(out) = n
            /\ \A k \in 1..n :
                   /\ out[k].date = isoformat(resp.today)
                   /\ Minutes(out[k].start_time) = from + (k - 1) * d
                   /\ Minutes(out[k].end_time) = from + k * d
                   /\ out[k].start_time[2] < 60 /\ out[k].end_time[2] < 60
                   /\ Minutes(out[k].end_time) <= to
            /\ \A k \in 1..(n - 1) : out[k].end_time = out[k + 1].start_time
            /\ to - (from + n * d) < d

\* d = 30 and the window 09:00-10:00 give exactly 09:00-09:30 and 09:30-10:00
C3_Witness ==
    /\ IsSlots
    /\ service[Oid1].duration_minutes = 30
    /\ availability[1].start_time = HHMM(9, 0) /\ availability[1].end_time = HHMM(10, 0)
    /\ resp.out = << FreeSlot(Tue2, HHMM(9, 0), HHMM(9, 30)),
                     FreeSlot(Tue2, HHMM(9, 30), HHMM(10, 0)) >>

====
